---- MODULE Spec2Model ----
(***************************************************************************)
(* A model of the Welsh patch generator, generate-patches.py, in its two   *)
(* revisions:                                                              *)
(*   later   src/assets-nodist/work/generate-patches.py                    *)
(*   early   src/assets/work/generate-patches.py                           *)
(*                                                                         *)
(* A cell (a Python str) is a sequence of one-character strings.  Python   *)
(* values are tagged records: float (a rational num/den), int, str, bool,  *)
(* None, Dict1 (a one-key dict), Osc (the offset triple) and Err (a raised *)
(* exception).  The numeric grammar modelled for int() and float() is      *)
(* [spaces][sign]digits[.digits][spaces]; the input cells of the model     *)
(* never use the other forms Python accepts (exponents, inf, nan, '_').    *)
(*                                                                         *)
(* Variables: rows is patches.csv, i the row the loop is at, pc the state  *)
(* of the script (running, done, aborted), run the number of the run, fs   *)
(* the output directory, fs1 the output directory as the first run left    *)
(* it; call and ret are a decoder called on its own and what it returned.  *)
(***************************************************************************)
EXTENDS Integers, Sequences, FiniteSets, TLC

VARIABLES rows, i, pc, run, fs, fs1, call, ret

vars == <<rows, i, pc, run, fs, fs1, call, ret>>

(***************************************************************************)
(* Bounds of the model.                                                    *)
(***************************************************************************)
MaxRows == 3
MaxRuns == 2
MaxLen == 3
MaxTail == 3
PctSpan == 150

(***************************************************************************)
(* Python values.                                                          *)
(***************************************************************************)
PyFloat(n, d) == [t |-> "float", num |-> n, den |-> d]
PyInt(n) == [t |-> "int", n |-> n]
PyStr(s) == [t |-> "str", s |-> s]
PyBool(b) == [t |-> "bool", b |-> b]
PyNone == [t |-> "None"]
Dict1(k, v) == [t |-> "dict", key |-> k, val |-> v]
Osc(o, s, c) == [t |-> "osc", octave |-> o, semi |-> s, cent |-> c]
Err(e) == [t |-> "error", e |-> e]
ValueError == Err("ValueError")
IsErr(v) == v.t = "error"

\* The argument None that as_depth and as_bool test for, among cells.
NoneCell == <<"<None>">>

(***************************************************************************)
(* Python str methods, on sequences of characters.                         *)
(***************************************************************************)
UpperChars == <<"A","B","C","D","E","F","G","H","I","J","K","L","M",
                "N","O","P","Q","R","S","T","U","V","W","X","Y","Z">>
LowerChars == <<"a","b","c","d","e","f","g","h","i","j","k","l","m",
                "n","o","p","q","r","s","t","u","v","w","x","y","z">>
DigitChars == <<"0","1","2","3","4","5","6","7","8","9">>

LowerChar(c) ==
  IF \E k \in 1..26 : UpperChars[k] = c
  THEN LowerChars[CHOOSE k \in 1..26 : UpperChars[k] = c]
  ELSE c

\* s.lower()
lower(s) == [k \in 1..Len(s) |-> LowerChar(s[k])]

\* s.replace(a, b) for a one-character a; b is a string (possibly empty)
RECURSIVE replace(_, _, _)
replace(s, a, b) ==
  IF s = <<>> THEN <<>>
  ELSE (IF Head(s) = a THEN b ELSE <<Head(s)>>) \o replace(Tail(s), a, b)

\* s.startswith(p)
startswith(s, p) == Len(s) >= Len(p) /\ SubSeq(s, 1, Len(p)) = p

\* s[k:]
SliceFrom(s, k) == SubSeq(s, k + 1, Len(s))

\* s.rstrip(chars): drops every trailing character that is in chars
RECURSIVE rstrip(_, _)
rstrip(s, chars) ==
  IF s # <<>> /\ s[Len(s)] \in chars THEN rstrip(SubSeq(s, 1, Len(s) - 1), chars)
  ELSE s

RECURSIVE lstrip(_, _)
lstrip(s, chars) ==
  IF s # <<>> /\ Head(s) \in chars THEN lstrip(Tail(s), chars) ELSE s

\* s.strip(), as int() and float() apply it to their argument
strip(s) == lstrip(rstrip(s, {" "}), {" "})

IsDigit(c) == \E k \in 1..10 : DigitChars[k] = c
DigitVal(c) == (CHOOSE k \in 1..10 : DigitChars[k] = c) - 1
AllDigits(s) == \A k \in 1..Len(s) : IsDigit(s[k])

RECURSIVE NatOf(_)
NatOf(s) == IF s = <<>> THEN 0 ELSE 10 * NatOf(SubSeq(s, 1, Len(s) - 1)) + DigitVal(s[Len(s)])

RECURSIVE Pow10(_)
Pow10(n) == IF n = 0 THEN 1 ELSE 10 * Pow10(n - 1)

Unsigned(s) == IF s # <<>> /\ Head(s) \in {"+", "-"} THEN Tail(s) ELSE s
SignOf(s) == IF s # <<>> /\ Head(s) = "-" THEN -1 ELSE 1

IntOf(u, sign) ==
  IF u # <<>> /\ AllDigits(u) THEN PyInt(sign * NatOf(u)) ELSE ValueError

\* int(s): a Python int, or ValueError
int(s) == IntOf(Unsigned(strip(s)), SignOf(strip(s)))

\* The place of the first "." of u, or Len(u) + 1
DotAt(u) ==
  IF \E k \in 1..Len(u) : u[k] = "."
  THEN CHOOSE k \in 1..Len(u) : u[k] = "." /\ \A j \in 1..(k - 1) : u[j] # "."
  ELSE Len(u) + 1

FloatOf(whole, frac, sign) ==
  IF AllDigits(whole) /\ AllDigits(frac) /\ Len(whole) + Len(frac) > 0
  THEN PyFloat(sign * (NatOf(whole) * Pow10(Len(frac)) + NatOf(frac)), Pow10(Len(frac)))
  ELSE ValueError

FloatAt(u, dot, sign) == FloatOf(SubSeq(u, 1, dot - 1), SubSeq(u, dot + 1, Len(u)), sign)

FloatParts(u, sign) == FloatAt(u, DotAt(u), sign)

\* float(s): a Python float as the rational num/den, or ValueError
float(s) == FloatParts(Unsigned(strip(s)), SignOf(strip(s)))

\* f / 100.0
Div100(f) == IF IsErr(f) THEN f ELSE PyFloat(f.num, f.den * 100)

(***************************************************************************)
(* The field decoders.                                                     *)
(***************************************************************************)
\* as_pct without the division by 100
as_pct_unscaled(s) ==
  IF s = <<>> THEN PyFloat(0, 1) ELSE float(rstrip(s, {"%"}))

as_pct(s) ==
  IF s = <<>> THEN PyFloat(0, 1) ELSE Div100(float(rstrip(s, {"%"})))

as_cents(s) ==
  IF s = <<>> THEN PyFloat(0, 1)
  ELSE float(rstrip(s, {" ", "c", "e", "n", "t", "s"}))

as_int(s) ==
  IF s = <<>> THEN PyInt(0) ELSE int(replace(s, ",", <<>>))

as_bool(s) ==
  IF s = NoneCell THEN PyBool(FALSE)
  ELSE IF s = <<>> THEN PyBool(FALSE)
  ELSE IF lower(s) = <<"f","a","l","s","e">> THEN PyBool(FALSE)
  ELSE PyBool(TRUE)

as_float(s) ==
  IF s = <<>> THEN PyInt(0) ELSE float(s)

as_envelope(s, what_is_max) ==
  IF s = <<>> THEN PyFloat(0, 1)
  ELSE IF s = <<"m","a","x">> THEN what_is_max
  ELSE float(s)

\* {"note": v}, {"pulse-width": v}, ...: a dict whose one value is v
DictOf(k, v) == IF IsErr(v) THEN v ELSE Dict1(k, v)

\* as_tune once o, s and c are as_int(o), as_int(s) and as_int(c)
TuneOffsets(o, s, c) ==
  IF IsErr(o) THEN o
  ELSE IF IsErr(s) THEN s
  ELSE IF IsErr(c) THEN c
  ELSE IF o.n = 0 /\ s.n = 0 /\ c.n = 0 THEN Dict1("float", PyFloat(1, 1))
  ELSE Dict1("osc", Osc(o, s, c))

TuneOffsets_early(o, s, c) ==
  IF IsErr(o) THEN o
  ELSE IF IsErr(s) THEN s
  ELSE IF IsErr(c) THEN c
  ELSE IF o.n = 0 /\ s.n = 0 /\ c.n = 0 THEN PyFloat(1, 1)
  ELSE Osc(o, s, c)

\* as_tune with the offsets parsed before the note is looked at
as_tune_parse_first(o, s, c, n) ==
  IF IsErr(TuneOffsets(as_int(o), as_int(s), as_int(c)))
  THEN TuneOffsets(as_int(o), as_int(s), as_int(c))
  ELSE IF n # <<>> THEN DictOf("note", int(n))
  ELSE TuneOffsets(as_int(o), as_int(s), as_int(c))

as_tune(o, s, c, n) ==
  IF n # <<>> THEN DictOf("note", int(n))
  ELSE TuneOffsets(as_int(o), as_int(s), as_int(c))

as_tune_early(o, s, c, n) ==
  IF n # <<>> THEN Dict1("note", PyStr(n))
  ELSE TuneOffsets_early(as_int(o), as_int(s), as_int(c))

\* The absence marker 'none'
NoneStr == PyStr(<<"n","o","n","e">>)

Pct10of17 == <<"1","0","/","1","7","%">>

\* DepthOf with a nonzero cents value winning over the percentage
DepthOf_cents_first(p, c, absent) ==
  IF IsErr(p) THEN p
  ELSE IF IsErr(c) THEN c
  ELSE IF c.num # 0 THEN Dict1("cents", c)
  ELSE IF p.num # 0 THEN Dict1("pct", p)
  ELSE absent

\* as_depth once p and c are as_pct(p) and as_cents(c)
DepthOf(p, c, absent) ==
  IF IsErr(p) THEN p
  ELSE IF IsErr(c) THEN c
  ELSE IF p.num # 0 /\ c.num = 0 THEN Dict1("pct", p)
  ELSE IF p.num = 0 /\ c.num # 0 THEN Dict1("cents", c)
  ELSE absent

as_depth(p, c) ==
  IF p = NoneCell \/ c = NoneCell THEN NoneStr
  ELSE DepthOf(as_pct(IF p = Pct10of17 THEN <<"1","0","%">> ELSE p), as_cents(c), NoneStr)

as_depth_early(p, c) ==
  IF p = NoneCell \/ c = NoneCell THEN PyFloat(0, 1)
  ELSE DepthOf(as_pct(p), as_cents(c), PyFloat(0, 1))

\* as_kebab with commas turned into spaces instead of dropped
as_kebab_comma_to_space(s) ==
  replace(replace(replace(lower(s), " ", <<"-">>), ",", <<" ">>), "/", <<"-">>)

as_kebab(s) ==
  replace(replace(replace(lower(s), " ", <<"-">>), ",", <<>>), "/", <<"-">>)

as_kebab_early(s) == replace(lower(s), " ", <<"-">>)

\* as_waveform decoding s[2:] instead of s[3:]
as_waveform_slice2(s) ==
  IF startswith(s, <<"P","W">>) THEN DictOf("pulse-width", as_pct(SliceFrom(s, 2)))
  ELSE IF s = <<>> THEN NoneStr
  ELSE PyStr(as_kebab(s))

as_waveform(s) ==
  IF startswith(s, <<"P","W">>) THEN DictOf("pulse-width", as_pct(SliceFrom(s, 3)))
  ELSE IF s = <<>> THEN NoneStr
  ELSE PyStr(as_kebab(s))

as_waveform_early(s) ==
  IF startswith(s, <<"P","W">>) THEN DictOf("pulse-width", as_pct(SliceFrom(s, 3)))
  ELSE PyStr(as_kebab_early(s))

\* as_polyphony once n is int(s), or the ValueError it raised
Voices(n, s) ==
  IF IsErr(n) THEN PyStr(as_kebab(s))
  ELSE IF n.n > 0 THEN Dict1("multi-limit", n)
  ELSE PyNone

\* try: n = int(s); if n > 0: return {...}   except: return as_kebab(s)
\* A cell that parses as an integer n <= 0 leaves the try block without a
\* return statement: the function returns None.
as_polyphony(s) == Voices(int(s), s)

as_routing(s) ==
  IF s = <<>> THEN NoneStr ELSE PyStr(as_kebab(s))

\* as_float(0.1) compares the float 0.1 with '' and then returns float(0.1)
as_glide(s) ==
  IF s = <<"\"","m","o","d","e","r","a","t","e","\"">> THEN PyFloat(1, 10)
  ELSE as_float(s)

(***************************************************************************)
(* The patch assembler: the body of the row loop.  Record fields carry the *)
(* source's keys with '_' for '-'.                                         *)
(***************************************************************************)
\* row[42] is the last cell read: on a row of fewer cells some row[k] raises
\* IndexError.
NCols == 43

\* row[k]: the columns are addressed from 0
Cell(row, k) == row[k + 1]

Kebab(s) == PyStr(as_kebab(s))
DecayMax(s) == as_envelope(s, PyFloat(0, 1))
FilterReleaseMax(s) == as_envelope(s, PyFloat(30, 1))
AmpReleaseMax(s) == as_envelope(s, PyNone)

\* The dict display of the loop body, on a row of at least NCols cells.
Patch(row) ==
  [name |-> Kebab(Cell(row, 2)),
   oscillator_1 |->
     [waveform |-> as_waveform(Cell(row, 3)),
      tune |-> as_tune(Cell(row, 4), Cell(row, 5), Cell(row, 6), <<>>),
      mix_pct |-> as_pct(Cell(row, 7)),
      mix_db |-> as_float(Cell(row, 8))],
   oscillator_2 |->
     [waveform |-> as_waveform(Cell(row, 9)),
      tune |-> as_tune(Cell(row, 11), Cell(row, 12), Cell(row, 13), Cell(row, 10)),
      mix_pct |-> as_pct(Cell(row, 14)),
      mix_db |-> as_float(Cell(row, 15))],
   oscillator_2_track |-> as_bool(Cell(row, 16)),
   oscillator_2_sync |-> as_bool(Cell(row, 17)),
   noise |-> as_pct(Cell(row, 19)),
   lfo |->
     [routing |-> as_routing(Cell(row, 20)),
      waveform |-> as_waveform(Cell(row, 21)),
      frequency |-> as_float(Cell(row, 22)),
      depth |-> as_depth(Cell(row, 23), Cell(row, 24))],
   glide |-> as_glide(Cell(row, 26)),
   unison |-> as_bool(Cell(row, 27)),
   polyphony |-> as_polyphony(Cell(row, 28)),
   filter_type_24db |->
     [cutoff_hz |-> as_int(Cell(row, 29)),
      cutoff_pct |-> as_pct(Cell(row, 30))],
   filter_type_12db |->
     [cutoff_hz |-> as_int(Cell(row, 31)),
      cutoff_pct |-> as_pct(Cell(row, 32))],
   filter_resonance |-> as_pct(Cell(row, 33)),
   filter_envelope_weight |-> as_pct(Cell(row, 34)),
   filter_envelope |->
     [attack |-> as_float(Cell(row, 35)),
      decay |-> DecayMax(Cell(row, 36)),
      sustain |-> as_pct(Cell(row, 37)),
      release |-> FilterReleaseMax(Cell(row, 38))],
   amp_envelope |->
     [attack |-> as_float(Cell(row, 39)),
      decay |-> DecayMax(Cell(row, 40)),
      sustain |-> as_pct(Cell(row, 41)),
      release |-> AmpReleaseMax(Cell(row, 42))]]

\* The values of a patch, in the order the dict display evaluates them.
Leaves(p) ==
  <<p.name,
    p.oscillator_1.waveform, p.oscillator_1.tune, p.oscillator_1.mix_pct,
    p.oscillator_1.mix_db,
    p.oscillator_2.waveform, p.oscillator_2.tune, p.oscillator_2.mix_pct,
    p.oscillator_2.mix_db,
    p.oscillator_2_track, p.oscillator_2_sync, p.noise,
    p.lfo.routing, p.lfo.waveform, p.lfo.frequency, p.lfo.depth,
    p.glide, p.unison, p.polyphony,
    p.filter_type_24db.cutoff_hz, p.filter_type_24db.cutoff_pct,
    p.filter_type_12db.cutoff_hz, p.filter_type_12db.cutoff_pct,
    p.filter_resonance, p.filter_envelope_weight,
    p.filter_envelope.attack, p.filter_envelope.decay, p.filter_envelope.sustain,
    p.filter_envelope.release,
    p.amp_envelope.attack, p.amp_envelope.decay, p.amp_envelope.sustain,
    p.amp_envelope.release>>

\* Building the patch raised an exception.
Raises(p) == \E k \in 1..Len(Leaves(p)) : IsErr(Leaves(p)[k])

\* dump(patch, explicit_start=True): one YAML document, opened by "---"
dump(patch) == [start |-> "---", body |-> patch]

\* "../../assets/patches/welsh/%s.yaml" % name
PatchPath(name) == <<"../../assets/patches/welsh/">> \o name \o <<".yaml">>

(***************************************************************************)
(* The output directory: a function from the paths of the files that exist *)
(* to their contents, a file's content being the sequence of documents     *)
(* written to it.                                                          *)
(***************************************************************************)
EmptyFs == [p \in {} |-> <<>>]

\* open(path, "a"): creates the file, or keeps the content of the one that exists
OpenA(files, path) ==
  [p \in DOMAIN files \cup {path} |-> IF p \in DOMAIN files THEN files[p] ELSE <<>>]

\* open(path, "w"): creates the file, or truncates the one that exists
OpenW(files, path) ==
  [p \in DOMAIN files \cup {path} |-> IF p = path THEN <<>> ELSE files[p]]

\* patchfile.write(text)
Write(files, path, doc) == [files EXCEPT ![path] = Append(@, doc)]

\* WriteDocument leaving a file that exists as it is
WriteDocument_keep(files, name, patch) ==
  IF PatchPath(name) \in DOMAIN files THEN files
  ELSE Write(OpenW(files, PatchPath(name)), PatchPath(name), dump(patch))

\* with open(... % name, "w") as patchfile: patchfile.write(dump(patch, ...))
WriteDocument(files, name, patch) ==
  Write(OpenW(files, PatchPath(name)), PatchPath(name), dump(patch))

Exception == <<"E","x","c","e","p","t","i","o","n">>
Id103 == <<"1","0","3">>

\* RowCheck with row[0] == "Exception" for row[0].startswith("Exception")
RowCheck_exact(row) ==
  IF Len(row) < 1 THEN "raise"
  ELSE IF row[1] = Exception THEN "continue"
  ELSE IF Len(row) < 2 THEN "raise"
  ELSE IF row[2] = Id103 THEN "continue"
  ELSE "accept"

\* The two tests that open the loop body: "continue", "accept", or "raise"
\* for the IndexError of a row too short to test.
RowCheck(row) ==
  IF Len(row) < 1 THEN "raise"
  ELSE IF startswith(row[1], Exception) THEN "continue"
  ELSE IF Len(row) < 2 THEN "raise"
  ELSE IF row[2] = Id103 THEN "continue"
  ELSE "accept"

\* Emit with the file opened before the patch is built
Emit_open_first(files, patch) ==
  IF Raises(patch) THEN [fs |-> OpenW(files, PatchPath(patch.name.s)), raised |-> TRUE]
  ELSE [fs |-> WriteDocument(files, patch.name.s, patch), raised |-> FALSE]

\* The end of the loop body: the patch is built, and then its file is
\* opened and written.
Emit(files, patch) ==
  IF Raises(patch) THEN [fs |-> files, raised |-> TRUE]
  ELSE [fs |-> WriteDocument(files, patch.name.s, patch), raised |-> FALSE]

\* One pass through the loop body for one row: the output directory it
\* leaves, and whether an exception ended the script.
Iteration(files, row) ==
  IF RowCheck(row) = "continue" THEN [fs |-> files, raised |-> FALSE]
  ELSE IF RowCheck(row) = "raise" \/ Len(row) < NCols
       THEN [fs |-> files, raised |-> TRUE]
  ELSE Emit(files, Patch(row))

\* No decoder is being called on its own.
Pending == [t |-> "pending"]
NoCall == [fn |-> "none", a |-> <<>>]

(***************************************************************************)
(* The rows of patches.csv, drawn from a pool of rows.                     *)
(***************************************************************************)
BaseRow ==
  <<<<>>,
    <<"1">>,
    <<"L","e","a","d"," ","A">>,
    <<"S","a","w","t","o","o","t","h">>,
    <<>>,
    <<>>,
    <<>>,
    <<"5","0","%">>,
    <<"-","6">>,
    <<"P","W"," ","2","5","%">>,
    <<>>,
    <<"1">>,
    <<>>,
    <<"-","1">>,
    <<"1","0","0","%">>,
    <<"0">>,
    <<"T","R","U","E">>,
    <<"f","a","l","s","e">>,
    <<>>,
    <<>>,
    <<"O","s","c"," ","1","/","2">>,
    <<"S","i","n","e"," ","W","a","v","e">>,
    <<"7",".","5">>,
    <<"1","0","%">>,
    <<>>,
    <<>>,
    <<"\"","m","o","d","e","r","a","t","e","\"">>,
    <<>>,
    <<"8">>,
    <<"1",",","2","0","0">>,
    <<"2","5","%">>,
    <<>>,
    <<>>,
    <<"0","%">>,
    <<"5","0","%">>,
    <<"0",".","5">>,
    <<"m","a","x">>,
    <<"1","0","0","%">>,
    <<"m","a","x">>,
    <<"0">>,
    <<"1">>,
    <<"7","5","%">>,
    <<"m","a","x">>>>

With(row, k, cell) == [row EXCEPT ![k + 1] = cell]

RowSame == With(With(BaseRow, 2, <<"l","e","a","d","-","a">>), 7, <<"7","%">>)
RowOver ==
  With(With(With(BaseRow, 2, <<"B","a","s","s",","," ","1","/","2">>), 7, <<"1","5","0","%">>),
       19, <<"-","5","%">>)
RowPulseOver == With(With(BaseRow, 2, <<"P","a","d">>), 3, <<"P","W"," ","1","5","0","%">>)
RowAnnotation == With(With(With(BaseRow, 0, <<"E","x","c","e","p","t","i","o","n","s">>), 2, <<"N","o","t","e","s">>), 8, <<"x">>)
Row103 == With(With(With(BaseRow, 1, Id103), 2, <<"B","r","o","k","e","n">>), 8, <<"x">>)
RowBad == With(With(BaseRow, 2, <<"B","a","d">>), 8, <<"x">>)
RowShort == <<<<>>, <<"7">>, <<"S","h","o","r","t">>>>

RowPool == {BaseRow, RowSame, RowOver, RowPulseOver, RowAnnotation, Row103, RowBad, RowShort}

Init ==
  /\ rows \in UNION {[1..n -> RowPool] : n \in 0..MaxRows}
  /\ i = 1
  /\ pc = "running"
  /\ run = 1
  /\ fs = EmptyFs
  /\ fs1 = EmptyFs
  /\ call = NoCall
  /\ ret = Pending

\* for row in reader: ... (one row)
LoopBody ==
  /\ pc = "running"
  /\ i <= Len(rows)
  /\ LET out == Iteration(fs, rows[i])
     IN /\ fs' = out.fs
        /\ pc' = IF out.raised THEN "aborted" ELSE "running"
        /\ i' = IF out.raised THEN i ELSE i + 1
        /\ fs1' = IF out.raised /\ run = 1 THEN out.fs ELSE fs1
  /\ UNCHANGED <<rows, run, call, ret>>

\* The reader is exhausted: the loop and the script end.
EndOfInput ==
  /\ pc = "running"
  /\ i > Len(rows)
  /\ pc' = "done"
  /\ fs1' = IF run = 1 THEN fs ELSE fs1
  /\ UNCHANGED <<rows, i, run, fs, call, ret>>

\* The script is run again on the same patches.csv.
Reinvoke ==
  /\ pc \in {"done", "aborted"}
  /\ run < MaxRuns
  /\ run' = run + 1
  /\ i' = 1
  /\ pc' = "running"
  /\ UNCHANGED <<rows, fs, fs1, call, ret>>

Next == LoopBody \/ EndOfInput \/ Reinvoke

Spec == Init /\ [][Next]_vars

(***************************************************************************)
(* The decoders called on their own: a call is drawn from bounded sets of  *)
(* cells, and the one enabled action applies the decoder to it.            *)
(***************************************************************************)

Strs(alphabet, n) == UNION {[1..k -> alphabet] : k \in 0..n}

PW == <<"P","W">>
SineWave == <<"S","i","n","e"," ","W","a","v","e">>
PW25 == <<"P","W","2","5","%">>
PWsp25 == <<"P","W"," ","2","5","%">>

KebabCells == Strs({"A", "a", " ", ",", "/", "-"}, MaxLen)
WaveCells ==
  {<<>>, SineWave, <<"S","a","w","t","o","o","t","h">>, PW25, PWsp25}
    \cup {PW \o r : r \in Strs({" ", "2", "5", "%"}, MaxTail)}
DepthPctCells ==
  {NoneCell, <<>>, <<"0","%">>, <<"1","0","%">>, <<"1","0","/","1","7","%">>, <<"x","%">>}
DepthCentsCells ==
  {NoneCell, <<>>, <<"0"," ","c","e","n","t","s">>, <<"5","0"," ","c","e","n","t","s">>,
   <<"-","7"," ","c","e","n","t","s">>}
PolyCells ==
  {<<>>, <<"0">>, <<"-","1">>, <<"1">>, <<"8">>, <<" ","4"," ">>, <<"M","o","n","o">>,
   <<"L","e","g","a","t","o">>, <<"P","o","l","y"," ","2">>}
OffsetCells == {<<>>, <<"0">>, <<"1">>, <<"-","1">>, <<"1",",","2","0","0">>, <<"x">>}
NoteCells == {<<>>, <<"6","0">>, <<"0">>, <<"x">>}

Calls ==
  {[fn |-> f, a |-> <<s>>] : f \in {"as_kebab", "as_kebab_early"}, s \in KebabCells}
    \cup {[fn |-> f, a |-> <<s>>] : f \in {"as_waveform", "as_waveform_early"}, s \in WaveCells}
    \cup {[fn |-> f, a |-> <<p, c>>] :
            f \in {"as_depth", "as_depth_early"}, p \in DepthPctCells, c \in DepthCentsCells}
    \cup {[fn |-> "as_polyphony", a |-> <<s>>] : s \in PolyCells}
    \cup {[fn |-> f, a |-> <<o, s, c, n>>] :
            f \in {"as_tune", "as_tune_early"},
            o \in OffsetCells, s \in OffsetCells, c \in OffsetCells, n \in NoteCells}

BatchIdle ==
  /\ rows = <<>>
  /\ i = 1
  /\ pc = "idle"
  /\ run = 1
  /\ fs = EmptyFs
  /\ fs1 = EmptyFs

DecodeInit ==
  /\ call \in Calls
  /\ ret = Pending
  /\ BatchIdle

BatchVars == <<rows, i, pc, run, fs, fs1>>

Call_as_kebab ==
  /\ call.fn = "as_kebab"
  /\ ret = Pending
  /\ ret' = PyStr(as_kebab(call.a[1]))
  /\ UNCHANGED <<BatchVars, call>>

Call_as_kebab_early ==
  /\ call.fn = "as_kebab_early"
  /\ ret = Pending
  /\ ret' = PyStr(as_kebab_early(call.a[1]))
  /\ UNCHANGED <<BatchVars, call>>

Call_as_waveform ==
  /\ call.fn = "as_waveform"
  /\ ret = Pending
  /\ ret' = as_waveform(call.a[1])
  /\ UNCHANGED <<BatchVars, call>>

Call_as_waveform_early ==
  /\ call.fn = "as_waveform_early"
  /\ ret = Pending
  /\ ret' = as_waveform_early(call.a[1])
  /\ UNCHANGED <<BatchVars, call>>

Call_as_depth ==
  /\ call.fn = "as_depth"
  /\ ret = Pending
  /\ ret' = as_depth(call.a[1], call.a[2])
  /\ UNCHANGED <<BatchVars, call>>

Call_as_depth_early ==
  /\ call.fn = "as_depth_early"
  /\ ret = Pending
  /\ ret' = as_depth_early(call.a[1], call.a[2])
  /\ UNCHANGED <<BatchVars, call>>

Call_as_polyphony ==
  /\ call.fn = "as_polyphony"
  /\ ret = Pending
  /\ ret' = as_polyphony(call.a[1])
  /\ UNCHANGED <<BatchVars, call>>

Call_as_tune ==
  /\ call.fn = "as_tune"
  /\ ret = Pending
  /\ ret' = as_tune(call.a[1], call.a[2], call.a[3], call.a[4])
  /\ UNCHANGED <<BatchVars, call>>

Call_as_tune_early ==
  /\ call.fn = "as_tune_early"
  /\ ret = Pending
  /\ ret' = as_tune_early(call.a[1], call.a[2], call.a[3], call.a[4])
  /\ UNCHANGED <<BatchVars, call>>

DecodeNext ==
  \/ Call_as_kebab
  \/ Call_as_kebab_early
  \/ Call_as_waveform
  \/ Call_as_waveform_early
  \/ Call_as_depth
  \/ Call_as_depth_early
  \/ Call_as_polyphony
  \/ Call_as_tune
  \/ Call_as_tune_early

DecodeSpec == DecodeInit /\ [][DecodeNext]_vars

\* Two floats are the same number.
SameNumber(x, y) == x.num * y.den = y.num * x.den

\* The value is the one-key dict of key k.
IsVariant(v, k) == v.t = "dict" /\ v.key = k

\* The decoder f was called and has returned.
Returned(f) == call.fn = f /\ ret # Pending

(***************************************************************************)
(* Claims about the batch (under Spec).                                    *)
(***************************************************************************)

\* A row whose cell 0 starts with "Exception", or whose cell 1 is "103".
IsExcludedRow(row) ==
  \/ Len(row) >= 1 /\ startswith(row[1], Exception)
  \/ Len(row) >= 2 /\ row[2] = Id103

AcceptedRows == {k \in 1..Len(rows) : ~IsExcludedRow(rows[k])}
NameOf(k) == as_kebab(rows[k][3])
PathOf(k) == PatchPath(NameOf(k))

\* C1: an excluded row is stepped over: the pass through the loop body leaves
\* every file as it was, raises nothing, and the loop goes on to the next row;
\* when the run completes every accepted row after an excluded one has its
\* document.
C1_Excluded ==
  /\ [](pc = "done" =>
          \A k \in 1..Len(rows) : IsExcludedRow(rows[k]) =>
            \A j \in AcceptedRows : j > k => PathOf(j) \in DOMAIN fs)
  /\ [][(pc = "running" /\ i <= Len(rows) /\ IsExcludedRow(rows[i])) =>
          (fs' = fs /\ pc' = "running" /\ i' = i + 1)]_vars

\* C1 witness: a completed run stepped over an excluded row, wrote nothing
\* under its name, and wrote the document of a later row.
C1_Witness ==
  /\ pc = "done"
  /\ \E k \in 1..Len(rows) :
       /\ IsExcludedRow(rows[k])
       /\ PathOf(k) \notin DOMAIN fs
       /\ \E j \in AcceptedRows : j > k /\ PathOf(j) \in DOMAIN fs

\* The decimal numeral of an integer.
RECURSIVE NumStr(_)
NumStr(n) ==
  IF n < 0 THEN <<"-">> \o NumStr(-n)
  ELSE IF n < 10 THEN <<DigitChars[n + 1]>>
  ELSE NumStr(n \div 10) \o <<DigitChars[(n % 10) + 1]>>

\* The cell "<number>%" of each number modelled.
PctTable == [n \in (-PctSpan)..PctSpan |-> NumStr(n) \o <<"%">>]

\* The cell is empty or "<number>%" for a number of S.
IsPctCell(cell, S) == cell = <<>> \/ \E n \in S : PctTable[n] = cell

\* The columns decoded by as_pct alone, and the patch field of each.
PctCols == {7, 14, 19, 30, 32, 33, 34, 37, 41}
PctField(p, col) ==
  CASE col = 7 -> p.oscillator_1.mix_pct
    [] col = 14 -> p.oscillator_2.mix_pct
    [] col = 19 -> p.noise
    [] col = 30 -> p.filter_type_24db.cutoff_pct
    [] col = 32 -> p.filter_type_12db.cutoff_pct
    [] col = 33 -> p.filter_resonance
    [] col = 34 -> p.filter_envelope_weight
    [] col = 37 -> p.filter_envelope.sustain
    [] col = 41 -> p.amp_envelope.sustain

InUnit(x) == x.t = "float" /\ 0 <= x.num /\ x.num <= x.den

\* The field is the number/100 of its cell, and 0.0 for the empty cell.
IsHundredth(x, cell) ==
  /\ cell = <<>> => SameNumber(x, PyFloat(0, 1))
  /\ \A n \in (-PctSpan)..PctSpan : PctTable[n] = cell => SameNumber(x, PyFloat(n, 100))

\* Every percentage-typed field of the patch is a unit fraction, and the
\* fields decoded by as_pct alone are the number/100 of their cells.
PctFieldsOk(p, row) ==
  /\ \A col \in PctCols :
       InUnit(PctField(p, col)) /\ IsHundredth(PctField(p, col), row[col + 1])
  /\ \A w \in {p.oscillator_1.waveform, p.oscillator_2.waveform, p.lfo.waveform} :
       IsVariant(w, "pulse-width") => InUnit(w.val)
  /\ IsVariant(p.lfo.depth, "pct") =>
       InUnit(p.lfo.depth.val) /\ IsHundredth(p.lfo.depth.val, row[24])

\* The row just passed through the loop body was accepted and its patch
\* written: the patch is the last document of its file.
JustWritten == pc \in {"running", "done"} /\ i > 1 /\ (i - 1) \in AcceptedRows
LastPatch == fs[PathOf(i - 1)][Len(fs[PathOf(i - 1)])].body

\* C5 (as stated): every percentage-typed field of every patch produced is
\* within [0,1] and is number/100, for every row whose percentage cells are
\* empty or "<number>%".
C5_UnitFractionAsStated ==
  (/\ JustWritten
   /\ \A col \in PctCols \cup {23} : IsPctCell(rows[i - 1][col + 1], (-PctSpan)..PctSpan))
    => PctFieldsOk(LastPatch, rows[i - 1])

\* C5 (amended): the same for every row whose percentage cells are empty or
\* "<number>%" with 0 <= number <= 100, and whose waveform cells that start
\* with "PW" hold such a percentage after their first three characters.
C5_UnitFraction ==
  (/\ JustWritten
   /\ \A col \in PctCols \cup {23} : IsPctCell(rows[i - 1][col + 1], 0..100)
   /\ \A col \in {3, 9, 21} :
        startswith(rows[i - 1][col + 1], PW) =>
          IsPctCell(SliceFrom(rows[i - 1][col + 1], 3), 0..100))
    => PctFieldsOk(LastPatch, rows[i - 1])

\* C5 witness: a patch was written from a row whose mix cell is "50%", with
\* the mix 1/2 and a pulse-width duty cycle of 1/4.
C5_Witness ==
  /\ JustWritten
  /\ rows[i - 1][8] = <<"5","0","%">>
  /\ \A col \in PctCols \cup {23} : IsPctCell(rows[i - 1][col + 1], 0..100)
  /\ SameNumber(LastPatch.oscillator_1.mix_pct, PyFloat(1, 2))
  /\ IsVariant(LastPatch.oscillator_2.waveform, "pulse-width")
  /\ SameNumber(LastPatch.oscillator_2.waveform.val, PyFloat(1, 4))

\* Building the patch of the row raises: a cell is missing or does not parse.
DecodingFails(row) == Len(row) < NCols \/ Raises(Patch(row))

\* C8: when decoding an accepted row fails the script ends at that row: the
\* pass through the loop body leaves every file as it was (no file is created
\* or truncated for the row), and nothing is written after it until the
\* script is run again.
C8_Abort ==
  /\ [][(pc = "running" /\ i <= Len(rows) /\ ~IsExcludedRow(rows[i])
           /\ DecodingFails(rows[i])) =>
          (fs' = fs /\ pc' = "aborted" /\ i' = i)]_vars
  /\ [][pc = "aborted" => (fs' = fs /\ run' = run + 1)]_vars

\* C8 witness: the first run ended at a row whose cells do not parse, after a
\* document was written and with a row still to come; no file of the failing
\* row exists.
C8_Witness ==
  /\ pc = "aborted" /\ run = 1
  /\ 1 < i /\ i < Len(rows)
  /\ Len(rows[i]) = NCols
  /\ fs # EmptyFs
  /\ PathOf(i) \notin DOMAIN fs

\* C9: a second run over the same rows, started from the files a completed or
\* aborted first run left, ends with the same paths and the same contents as
\* the first run, which started from an empty directory.
C9_Rerun == (run >= 2 /\ pc \in {"done", "aborted"}) => fs = fs1

\* C9 witness: a second run completed over files of two different names.
C9_Witness == run = 2 /\ pc = "done" /\ Cardinality(DOMAIN fs) >= 2

\* C10: after a run that completes, the documents are exactly those of the
\* normalized names of the accepted rows, and each holds the patch of the
\* last accepted row of that normalized name.
C10_LastWins ==
  pc = "done" =>
    /\ DOMAIN fs = {PathOf(k) : k \in AcceptedRows}
    /\ \A k \in AcceptedRows :
         (\A j \in AcceptedRows : j > k => NameOf(j) # NameOf(k)) =>
           fs[PathOf(k)] = <<dump(Patch(rows[k]))>>

\* C10 witness: two accepted rows of different names and patches normalize to
\* one identifier, and the run left fewer documents than accepted rows.
C10_Witness ==
  /\ pc = "done"
  /\ \E j, k \in AcceptedRows :
       /\ j < k
       /\ NameOf(j) = NameOf(k)
       /\ rows[j][3] # rows[k][3]
       /\ Patch(rows[j]) # Patch(rows[k])
  /\ Cardinality(DOMAIN fs) < Cardinality(AcceptedRows)

(***************************************************************************)
(* Claims about the decoders (under DecodeSpec).                           *)
(***************************************************************************)

\* C2 (as stated): as_waveform maps "PW25%" to the pulse-width variant with
\* duty cycle 0.25, "Sine Wave" to "sine-wave", the empty cell to the absence
\* marker, and a cell with prefix "PW" to the pulse-width variant whose duty
\* cycle is the percentage decoding of the cell after that two-character prefix.
C2_WaveformAsStated ==
  Returned("as_waveform") =>
    LET s == call.a[1]
        rest == as_pct(SliceFrom(s, Len(PW)))
    IN /\ s = PW25 =>
            IsVariant(ret, "pulse-width") /\ SameNumber(ret.val, PyFloat(25, 100))
       /\ s = SineWave => ret = PyStr(<<"s","i","n","e","-","w","a","v","e">>)
       /\ s = <<>> => ret = NoneStr
       /\ startswith(s, PW) /\ ~IsErr(rest) =>
            IsVariant(ret, "pulse-width") /\ SameNumber(ret.val, rest)

\* C2 (amended): as_waveform maps "PW 25%" to the pulse-width variant with
\* duty cycle 0.25 and "PW25%" to the one with duty cycle 0.05, "Sine Wave" to
\* "sine-wave", and the empty cell to the absence marker (the early revision:
\* to the empty identifier); for a cell with prefix "PW" the duty cycle is the
\* percentage decoding of the cell after its first three characters, and the
\* call fails when that does not decode.
C2_Waveform ==
  \A f \in {"as_waveform", "as_waveform_early"} :
    Returned(f) =>
      LET s == call.a[1]
          rest == as_pct(SubSeq(s, 4, Len(s)))
      IN /\ s = PWsp25 =>
              IsVariant(ret, "pulse-width") /\ SameNumber(ret.val, PyFloat(1, 4))
         /\ s = PW25 =>
              IsVariant(ret, "pulse-width") /\ SameNumber(ret.val, PyFloat(5, 100))
         /\ s = SineWave => ret = PyStr(<<"s","i","n","e","-","w","a","v","e">>)
         /\ s = <<>> => ret = (IF f = "as_waveform" THEN NoneStr ELSE PyStr(<<>>))
         /\ startswith(s, PW) =>
              IF IsErr(rest) THEN IsErr(ret)
              ELSE IsVariant(ret, "pulse-width") /\ SameNumber(ret.val, rest)

\* C2 witness: the cell "PW 25%" was decoded to the duty cycle 1/4.
C2_Witness ==
  /\ Returned("as_waveform")
  /\ call.a[1] = PWsp25
  /\ IsVariant(ret, "pulse-width")
  /\ SameNumber(ret.val, PyFloat(1, 4))

\* The later revision reads the one irregular cell "10/17%" as "10%".
DepthPct(f, p) ==
  as_pct(IF f = "as_depth" /\ p = <<"1","0","/","1","7","%">> THEN <<"1","0","%">> ELSE p)
DepthDecodes(f, p, c) ==
  /\ p # NoneCell /\ c # NoneCell
  /\ ~IsErr(DepthPct(f, p)) /\ ~IsErr(as_cents(c))
IsAbsence(f, v) == IF f = "as_depth" THEN v = NoneStr ELSE v = PyFloat(0, 1)

\* C3 (as stated): as_depth returns the percentage variant whenever the
\* percentage decodes to a nonzero value, also when the cents value is nonzero
\* too; the cents variant only when the percentage is zero and cents nonzero;
\* the absence marker when both are zero or either input is missing.
C3_DepthAsStated ==
  \A f \in {"as_depth", "as_depth_early"} :
    Returned(f) =>
      LET p == call.a[1]
          c == call.a[2]
      IN /\ (p = NoneCell \/ c = NoneCell) => IsAbsence(f, ret)
         /\ DepthDecodes(f, p, c) =>
              /\ DepthPct(f, p).num # 0 =>
                   IsVariant(ret, "pct") /\ SameNumber(ret.val, DepthPct(f, p))
              /\ IsVariant(ret, "cents") <=> (DepthPct(f, p).num = 0 /\ as_cents(c).num # 0)
              /\ (DepthPct(f, p).num = 0 /\ as_cents(c).num = 0) => IsAbsence(f, ret)

\* C3 (amended): as_depth returns the percentage variant exactly when the
\* percentage is nonzero and the cents value is zero, the cents variant exactly
\* when the percentage is zero and the cents value nonzero, and the absence
\* marker otherwise: both zero, both nonzero, or either input missing.
C3_Depth ==
  \A f \in {"as_depth", "as_depth_early"} :
    Returned(f) =>
      LET p == call.a[1]
          c == call.a[2]
      IN /\ (p = NoneCell \/ c = NoneCell) => IsAbsence(f, ret)
         /\ DepthDecodes(f, p, c) =>
              LET pz == DepthPct(f, p).num = 0
                  cz == as_cents(c).num = 0
              IN /\ (~pz /\ cz) =>
                      IsVariant(ret, "pct") /\ SameNumber(ret.val, DepthPct(f, p))
                 /\ (pz /\ ~cz) =>
                      IsVariant(ret, "cents") /\ SameNumber(ret.val, as_cents(c))
                 /\ (pz = cz) => IsAbsence(f, ret)

\* C3 witness: a call with both inputs nonzero has returned the absence marker.
C3_Witness ==
  /\ Returned("as_depth")
  /\ DepthDecodes("as_depth", call.a[1], call.a[2])
  /\ DepthPct("as_depth", call.a[1]).num # 0 /\ as_cents(call.a[2]).num # 0
  /\ ret = NoneStr

\* C4 (as stated): as_polyphony returns, for every cell, the multi-voice-limit
\* variant carrying a positive integer when the cell parses as a positive
\* integer, and otherwise the named-mode variant carrying as_kebab of the cell.
C4_PolyphonyAsStated ==
  Returned("as_polyphony") =>
    LET s == call.a[1]
        n == int(s)
    IN IF ~IsErr(n) /\ n.n > 0
       THEN IsVariant(ret, "multi-limit") /\ ret.val = n
       ELSE ret = PyStr(as_kebab(s))

\* C6: as_tune with a non-empty note cell returns the note variant whatever
\* the offset cells hold (they are not parsed, so they cannot fail it); with
\* an empty note cell it returns the no-transposition marker when the three
\* offsets decode to zero and the offset triple otherwise.  The only failures
\* are a note cell that is no integer (later revision) and, with an empty
\* note cell, an offset cell that is no integer.
C6_Tune ==
  \A f \in {"as_tune", "as_tune_early"} :
    Returned(f) =>
      LET o == as_int(call.a[1])
          s == as_int(call.a[2])
          c == as_int(call.a[3])
          n == call.a[4]
          later == f = "as_tune"
      IN IF n # <<>>
         THEN IF later /\ IsErr(int(n)) THEN IsErr(ret)
              ELSE /\ IsVariant(ret, "note")
                   /\ ret.val = (IF later THEN int(n) ELSE PyStr(n))
         ELSE IF IsErr(o) \/ IsErr(s) \/ IsErr(c) THEN IsErr(ret)
         ELSE IF o.n = 0 /\ s.n = 0 /\ c.n = 0
              THEN ret = (IF later THEN Dict1("float", PyFloat(1, 1)) ELSE PyFloat(1, 1))
              ELSE /\ (IF later THEN IsVariant(ret, "osc") /\ ret.val = Osc(o, s, c)
                       ELSE ret = Osc(o, s, c))
                   /\ ~IsVariant(ret, "note")

\* C6 witness: a note was returned although an offset cell does not parse.
C6_Witness ==
  /\ Returned("as_tune")
  /\ IsErr(as_int(call.a[1]))
  /\ IsVariant(ret, "note")

\* C7: as_kebab is idempotent in both revisions, and the later revision's
\* result holds no uppercase letter, space, comma or slash.
C7_Kebab ==
  /\ Returned("as_kebab") =>
       /\ as_kebab(ret.s) = ret.s
       /\ \A k \in 1..Len(ret.s) :
            /\ ret.s[k] \notin {" ", ",", "/"}
            /\ \A u \in 1..26 : ret.s[k] # UpperChars[u]
  /\ Returned("as_kebab_early") => as_kebab_early(ret.s) = ret.s

\* C7 witness: a name with an uppercase letter, a comma and a slash was
\* normalized to something else.
C7_Witness ==
  /\ Returned("as_kebab")
  /\ call.a[1] = <<"A", ",", "/">>
  /\ ret.s = <<"a", "-">>

====
